---- MODULE Spec2Model ----
(***************************************************************************)
(* Model of iotdb/ainode/client.py: the ConfigNodeClient (leader tracking, *)
(* redirect handling, bounded retry) and the DataNodeClient                *)
(* (fetch_timeseries: paginated fetch).                                    *)
(***************************************************************************)
EXTENDS Integers, Sequences, FiniteSets, TLC

VARIABLES
    config_leader,   \* self.__config_leader : an endpoint or None
    config_nodes,    \* self.__config_nodes  : sequence of endpoints
    cursor,          \* self.__cursor
    transport,       \* self.__transport (assigned only in __init__)
    client,          \* endpoint the stub self.__client is connected to, or None
    pc,              \* position of the single caller thread
    op,              \* operation in progress
    i,               \* number of completed iterations of the retry loop
    pass,            \* 0: __try_to_connect called by __init__; 1, 2: first / second call of it in the last __wait_and_reconnect
    try_host_num,    \* local of __try_to_connect
    result,          \* what the last call handed to its caller
    rpcCount,        \* history: RPCs issued by the call in progress
    lastOutcome,     \* history: outcome of the last RPC of the call
    lastRedirect,    \* history: endpoint named by the last response (None if none)
    lastList,        \* history: membership list carried by the last response
    lastPayload,     \* history: payload carried by the last response
    touched,         \* history: which of leader, members, cursor the last RPC's handling changed
    tried,           \* history: endpoints __connect was called with in the current __try_to_connect
    stale,           \* history: the connection behind self.__client has failed at transport level
    open_transports, \* transports the client opened and has not closed (counted up to MaxOpen)
    passInfo,        \* history of the current __try_to_connect / __wait_and_reconnect
    fpc,             \* DataNodeClient.fetch_timeseries: position
    data,            \* rows accumulated in `data`
    query_id,        \* query_id captured from the first response
    has_more_data,   \* has_more_data
    arrived,         \* history: pages received, in arrival order
    requests,        \* history: requests sent, in order
    fresult          \* what fetch_timeseries handed to its caller

cnVars == <<config_leader, config_nodes, cursor, transport, client, pc, op, i, pass,
            try_host_num, result, rpcCount, lastOutcome, lastRedirect, lastList,
            lastPayload, touched, tried, stale, open_transports, passInfo>>
fVars == <<fpc, data, query_id, has_more_data, arrived, requests, fresult>>
vars == <<cnVars, fVars>>

----------------------------------------------------------------------------
(* Bounds of the model *)
NumEndpoints == 2
MaxMembers == 2
MaxPages == 2
MaxOpen == 2

(* Program constants *)
RETRY_NUM == 5

None == 0
Endpoints == 1..NumEndpoints
\* membership lists a response can carry: each config node is listed once
MemberLists ==
    {s \in UNION {[1..n -> Endpoints] : n \in 0..MaxMembers} :
        \A a, b \in 1..Len(s) : a # b => s[a] # s[b]}
Ops == {"node_register", "node_restart", "node_remove", "get_ainode_configuration"}
Payloads == {7, 8}
NoResult == [kind |-> "none"]

\* descriptor.get_config().get_ain_target_config_node_list(): the configured endpoints
TargetConfigNodeList == [k \in 1..NumEndpoints |-> k]

\* history kept per resolution: the cursor when the current __try_to_connect began,
\* whether it began with a connect to the presumed leader, and, per
\* __wait_and_reconnect, the calls of __sync_latest_config_node_list and their effect
NewPass(c, calls, changed) ==
    [cursor0 |-> c, leaderFirst |-> FALSE, syncCalls |-> calls, syncChanged |-> changed]

----------------------------------------------------------------------------
(* ConfigNodeClient: pure helpers *)

update_config_node_leader_NoUpdate(code, redirectNode, leader) ==
    [redirected |-> code = "REDIRECTION_RECOMMEND", leader |-> leader]

update_config_node_leader_NotRedirected(code, redirectNode, leader) ==
    [redirected |-> FALSE,
     leader |-> IF code = "REDIRECTION_RECOMMEND" THEN redirectNode ELSE leader]

\* __update_config_node_leader: the returned flag and the new value of __config_leader
update_config_node_leader(code, redirectNode, leader) ==
    IF code = "REDIRECTION_RECOMMEND"
    THEN [redirected |-> TRUE,
          leader |-> IF redirectNode # None THEN redirectNode ELSE None]
    ELSE [redirected |-> FALSE, leader |-> leader]

\* util.verify_success: TRUE when it returns, FALSE when it raises (an error that is
\* no TException) because the status is not the success status
verify_success(code) == code = "SUCCESS_STATUS"

RetryLoopContinues_OffByOne(n) == n <= RETRY_NUM

\* for _ in range(0, self.__RETRY_NUM): whether iteration number n (from 0) runs
RetryLoopContinues(n) == n < RETRY_NUM

CaughtAsTransport_All(exc) == exc \in {"TException", "RuntimeError"}

\* except TTransport.TException: the exceptions of the try block the clause catches
CaughtAsTransport(exc) == exc = "TException"

LeaderAfterTransportFailure_Kept(leader) == leader

\* self.__config_leader = None in the except clause
LeaderAfterTransportFailure(leader) == None

MembersAfterSuccess_Never(o, members, respList) == members

\* self.__config_nodes = resp.configNodeList: node_register and node_restart only
MembersAfterSuccess(o, members, respList) ==
    IF o \in {"node_register", "node_restart"} THEN respList ELSE members

\* the value each operation returns on success
ReturnValue(o, code, payload) ==
    IF o \in {"node_register", "get_ainode_configuration"} THEN payload ELSE code

SecondPassAfterFailure_None(p) == FALSE

\* __wait_and_reconnect: a failed first __try_to_connect is caught and followed by a second one
SecondPassAfterFailure(p) == p = 1

NextCursor_NoWrap(c, n) == c + 1

NextCursor_Skip(c, n) == (c + 2) % n

\* self.__cursor = (self.__cursor + 1) % len(self.__config_nodes)
NextCursor(c, n) == (c + 1) % n

LeaderAfterConnectFailure_Kept(leader) == leader

\* self.__config_leader = None after a failed connect to the presumed leader
LeaderAfterConnectFailure(leader) == None

RoundRobinContinues_OneMore(k, n) == k <= n /\ n > 0

\* while try_host_num < len(self.__config_nodes):
RoundRobinContinues(k, n) == k < n

sync_latest_config_node_list_Clears(members) == <<>>

\* __sync_latest_config_node_list: pass
sync_latest_config_node_list(members) == members

\* a transport opened by __connect stays open until close() is called on it
OpenAfterConnect(n) == IF n < MaxOpen THEN n + 1 ELSE n

\* if self.__transport is not None: self.__transport.close()
OpenAfterClose(n, t) == IF t # None /\ n > 0 THEN n - 1 ELSE n

----------------------------------------------------------------------------
(* ConfigNodeClient: state machine *)

CnInit ==
    /\ config_leader = Head(TargetConfigNodeList)
    /\ config_nodes = <<>>
    /\ cursor = 0
    /\ transport = None
    /\ client = None
    /\ pc = "try_leader"
    /\ op = "init"
    /\ i = 0
    /\ pass = 0
    /\ try_host_num = 0
    /\ result = NoResult
    /\ rpcCount = 0
    /\ lastOutcome = "none"
    /\ lastRedirect = None
    /\ lastList = <<>>
    /\ lastPayload = 0
    /\ touched = {}
    /\ tried = <<>>
    /\ stale = FALSE
    /\ open_transports = 0
    /\ passInfo = NewPass(0, 0, FALSE)

FInitIdle ==
    /\ fpc = "off"
    /\ data = <<>>
    /\ query_id = 0
    /\ has_more_data = FALSE
    /\ arrived = <<>>
    /\ requests = <<>>
    /\ fresult = NoResult

\* __try_to_connect returned: back in __init__ or in the retry loop after __wait_and_reconnect
ConnectReturned ==
    IF pass = 0
    THEN /\ pc' = "idle"
         /\ UNCHANGED <<i, result, pass>>
    ELSE /\ i' = i + 1
         /\ UNCHANGED pass
         /\ IF RetryLoopContinues(i + 1)
            THEN pc' = "rpc" /\ UNCHANGED result
            ELSE /\ pc' = "idle"
                 /\ result' = [kind |-> "ClusterUnreachable", at |-> "loop_end"]

\* __try_to_connect raised TException(MSG_RECONNECTION_FAIL)
ConnectRaised ==
    IF pass = 0
    THEN /\ pc' = "dead"
         /\ UNCHANGED <<i, result, pass, tried>>
    ELSE IF SecondPassAfterFailure(pass)
    THEN \* caught by __wait_and_reconnect
         /\ pc' = "sync"
         /\ UNCHANGED <<i, result, pass, tried>>
    ELSE /\ pc' = "idle"
         /\ result' = [kind |-> "ClusterUnreachable", at |-> "try_to_connect"]
         /\ UNCHANGED <<i, tried, pass>>

\* __try_to_connect, lines 139-148: the connect to the presumed leader
ConnectLeader ==
    /\ pc = "try_leader"
    /\ config_leader # None
    /\ tried' = Append(tried, config_leader)
    /\ passInfo' = [passInfo EXCEPT !.leaderFirst = TRUE]
    /\ \E ok \in BOOLEAN :
         IF ok
         THEN /\ client' = config_leader
              /\ stale' = FALSE
              /\ open_transports' = OpenAfterConnect(open_transports)
              /\ ConnectReturned
              /\ UNCHANGED <<config_leader, try_host_num>>
         ELSE /\ config_leader' = LeaderAfterConnectFailure(config_leader)
              /\ open_transports' = OpenAfterClose(open_transports, transport)
              /\ try_host_num' = 0
              /\ pc' = "round_robin"
              /\ UNCHANGED <<client, stale, i, result, pass>>
    /\ UNCHANGED <<config_nodes, cursor, transport, op, rpcCount, lastOutcome,
                   lastRedirect, lastList, lastPayload, touched>>
    /\ UNCHANGED fVars

\* __try_to_connect, lines 139, 147-150 with no presumed leader
SkipLeader ==
    /\ pc = "try_leader"
    /\ config_leader = None
    /\ open_transports' = OpenAfterClose(open_transports, transport)
    /\ try_host_num' = 0
    /\ pc' = "round_robin"
    /\ UNCHANGED <<config_leader, config_nodes, cursor, transport, client, op, i, pass,
                   result, rpcCount, lastOutcome, lastRedirect, lastList, lastPayload, touched,
                   tried, stale, passInfo>>
    /\ UNCHANGED fVars

\* __try_to_connect, lines 151-161: one iteration of the round-robin loop
RoundRobinStep ==
    /\ pc = "round_robin"
    /\ RoundRobinContinues(try_host_num, Len(config_nodes))
    /\ cursor' = NextCursor(cursor, Len(config_nodes))
    /\ IF cursor' \notin 0..(Len(config_nodes) - 1)
       THEN \* self.__config_nodes[self.__cursor] raises IndexError, which no clause catches
            /\ pc' = IF pass = 0 THEN "dead" ELSE "idle"
            /\ result' = [kind |-> "IndexError"]
            /\ UNCHANGED <<tried, client, stale, i, pass, try_host_num, open_transports>>
       ELSE /\ tried' = Append(tried, config_nodes[cursor' + 1])
            /\ \E ok \in BOOLEAN :
                 IF ok
                 THEN /\ client' = config_nodes[cursor' + 1]
                      /\ stale' = FALSE
                      /\ open_transports' = OpenAfterConnect(open_transports)
                      /\ try_host_num' = 0
                      /\ ConnectReturned
                 ELSE /\ try_host_num' = try_host_num + 1
                      /\ UNCHANGED <<client, stale, pc, i, result, pass, open_transports>>
    /\ UNCHANGED <<config_leader, config_nodes, transport, op, rpcCount, lastOutcome,
                   lastRedirect, lastList, lastPayload, touched, passInfo>>
    /\ UNCHANGED fVars

\* __try_to_connect, lines 151, 163: every member was tried, raise
RoundRobinExhausted ==
    /\ pc = "round_robin"
    /\ ~RoundRobinContinues(try_host_num, Len(config_nodes))
    /\ try_host_num' = 0
    /\ ConnectRaised
    /\ UNCHANGED <<config_leader, config_nodes, cursor, transport, client, op,
                   rpcCount, lastOutcome, lastRedirect, lastList, lastPayload, touched, stale,
                   open_transports, passInfo>>
    /\ UNCHANGED fVars

\* __wait_and_reconnect, lines 188-191: the hook, then the second __try_to_connect
SyncLatestConfigNodeList ==
    /\ pc = "sync"
    /\ config_nodes' = sync_latest_config_node_list(config_nodes)
    /\ passInfo' = NewPass(cursor, passInfo.syncCalls + 1,
                           passInfo.syncChanged \/ config_nodes' # config_nodes)
    /\ pass' = 2
    /\ tried' = <<>>
    /\ pc' = "try_leader"
    /\ UNCHANGED <<config_leader, cursor, transport, client, op, i, try_host_num,
                   result, rpcCount, lastOutcome, lastRedirect, lastList, lastPayload,
                   touched, stale, open_transports>>
    /\ UNCHANGED fVars

\* a caller invokes one of the four operations on the constructed client
StartCall ==
    /\ pc = "idle"
    /\ \E o \in Ops : op' = o
    /\ i' = 0
    /\ pc' = "rpc"
    /\ result' = NoResult
    /\ rpcCount' = 0
    /\ lastOutcome' = "none"
    /\ lastRedirect' = None
    /\ lastList' = <<>>
    /\ lastPayload' = 0
    /\ touched' = {}
    /\ tried' = <<>>
    /\ passInfo' = NewPass(cursor, 0, FALSE)
    /\ UNCHANGED <<config_leader, config_nodes, cursor, transport, client, pass,
                   try_host_num, stale, open_transports>>
    /\ UNCHANGED fVars

\* the body of the try block and its except clause, for one outcome of the RPC
HandleOutcome(outcome, code, redirectNode, respList, payload) ==
    LET upd == update_config_node_leader(code, redirectNode, config_leader)
        exc == IF outcome = "transport" THEN "TException"
               ELSE IF ~upd.redirected /\ ~verify_success(code) THEN "RuntimeError"
               ELSE "none"
    IN
    IF exc # "none" /\ CaughtAsTransport(exc)
    THEN /\ config_leader' = LeaderAfterTransportFailure(config_leader)
         /\ pc' = "wait"
         /\ UNCHANGED <<config_nodes, result, tried, passInfo>>
    ELSE IF exc # "none"
    THEN \* the exception leaves the operation
         /\ pc' = "idle"
         /\ result' = [kind |-> "OperationFailure", status |-> code]
         /\ config_leader' = upd.leader
         /\ tried' = <<>>
         /\ passInfo' = NewPass(cursor, 0, FALSE)
         /\ UNCHANGED config_nodes
    ELSE IF upd.redirected
    THEN /\ config_leader' = upd.leader
         /\ pc' = "wait"
         /\ UNCHANGED <<config_nodes, result, tried, passInfo>>
    ELSE /\ pc' = "idle"
         /\ config_nodes' = MembersAfterSuccess(op, config_nodes, respList)
         /\ result' = [kind |-> "value", val |-> ReturnValue(op, code, payload)]
         /\ config_leader' = upd.leader
         /\ tried' = <<>>
         /\ passInfo' = NewPass(cursor, 0, FALSE)

\* the RPC ends with this outcome, and the try block and except clause handle it
Respond(outcome, redirectNode, respList, payload) ==
    LET code == CASE outcome = "redirect" -> "REDIRECTION_RECOMMEND"
                  [] outcome = "success" -> "SUCCESS_STATUS"
                  [] OTHER -> "OTHER_ERROR" IN
    /\ lastOutcome' = outcome
    /\ lastRedirect' = redirectNode
    /\ lastList' = respList
    /\ lastPayload' = payload
    /\ stale' = (stale \/ outcome = "transport")
    /\ HandleOutcome(outcome, code, redirectNode, respList, payload)

\* one iteration of the retry loop up to __wait_and_reconnect: the RPC and its handling
Rpc ==
    /\ pc = "rpc"
    /\ rpcCount' = rpcCount + 1
    /\ \/ Respond("transport", None, <<>>, 0)
       \/ Respond("error", None, <<>>, 0)
       \/ \E redirectNode \in Endpoints \cup {None} :
             Respond("redirect", redirectNode, <<>>, 0)
       \/ \E respList \in MemberLists : \E payload \in Payloads :
             Respond("success", None, respList, payload)
    /\ UNCHANGED <<cursor, transport, client, op, i, pass, try_host_num,
                   open_transports>>
    /\ touched' = {f \in {"leader", "members", "cursor"} :
                      \/ f = "leader" /\ config_leader' # config_leader
                      \/ f = "members" /\ config_nodes' # config_nodes
                      \/ f = "cursor" /\ cursor' # cursor}
    /\ UNCHANGED fVars

\* __wait_and_reconnect, lines 184-187: sleep, then the first __try_to_connect
WaitAndReconnect ==
    /\ pc = "wait"
    /\ pass' = 1
    /\ tried' = <<>>
    /\ passInfo' = NewPass(cursor, 0, FALSE)
    /\ pc' = "try_leader"
    /\ UNCHANGED <<config_leader, config_nodes, cursor, transport, client, op, i,
                   try_host_num, result, rpcCount, lastOutcome, lastRedirect,
                   lastList, lastPayload, touched, stale, open_transports>>
    /\ UNCHANGED fVars

----------------------------------------------------------------------------
(* DataNodeClient.fetch_timeseries *)

QueryIds == {1, 2}
\* resp.tsDataset: a list of blocks, each decoding to a list of rows
Pages == {<<>>, << <<>> >>, << <<1>> >>, << <<2>>, <<1>> >>}

RECURSIVE Flatten(_)
Flatten(blocks) ==
    IF blocks = <<>> THEN <<>> ELSE Head(blocks) \o Flatten(Tail(blocks))

\* serde.convert_to_df: the rows of the blocks, in block order
convert_to_df(tsDataset) == Flatten(tsDataset)

FirstPageEmpty_BlocksOnly(tsDataset) == Len(tsDataset) = 0

\* len(resp.tsDataset) == 0, then data.empty, on the first response
FirstPageEmpty(tsDataset) ==
    Len(tsDataset) = 0 \/ Len(convert_to_df(tsDataset)) = 0

AppendPage_Prepend(d, rows) == rows \o d

\* data = data.append(convert_to_df(...))
AppendPage(d, rows) == d \o rows

FetchMoreQueryId_Zero(first_id) == 0

\* TFetchMoreDataReq(queryId=query_id, ...): query_id is resp.queryId of the first response
FetchMoreQueryId(first_id) == first_id

AfterFetchFailure_Retry(position) == position

\* except Exception as e: ... raise e
AfterFetchFailure(position) == "raised"

LoopAgain_Always(more) == TRUE

LoopAgain_Never(more) == FALSE

\* while has_more_data:
LoopAgain(more) == more

FetchMoreCount == Len(SelectSeq(requests, LAMBDA r : r.kind = "fetchMoreData"))

\* the data node reports has_more only while the page bound allows n fetch-more requests
HasMoreChoices(n) == IF n <= MaxPages THEN BOOLEAN ELSE {FALSE}

FInit ==
    /\ fpc = "open"
    /\ data = <<>>
    /\ query_id = 0
    /\ has_more_data = FALSE
    /\ arrived = <<>>
    /\ requests = <<>>
    /\ fresult = NoResult

CnOff ==
    /\ config_leader = None
    /\ config_nodes = <<>>
    /\ cursor = 0
    /\ transport = None
    /\ client = None
    /\ pc = "off"
    /\ op = "init"
    /\ i = 0
    /\ pass = 0
    /\ try_host_num = 0
    /\ result = NoResult
    /\ rpcCount = 0
    /\ lastOutcome = "none"
    /\ lastRedirect = None
    /\ lastList = <<>>
    /\ lastPayload = 0
    /\ touched = {}
    /\ tried = <<>>
    /\ stale = FALSE
    /\ open_transports = 0
    /\ passInfo = NewPass(0, 0, FALSE)

\* lines 80-106: the open-query request and the handling of its response
OpenQuery ==
    /\ fpc = "open"
    /\ requests' = Append(requests, [kind |-> "fetchTimeseries", queryId |-> 0])
    /\ \E outcome \in {"transport", "error", "success"} :
       \E tsDataset \in Pages :
       \E more \in HasMoreChoices(1) :
       \E qid \in QueryIds :
         /\ outcome # "success" => (tsDataset = <<>> /\ more = FALSE /\ qid = 1)
         /\ arrived' = Append(arrived, [outcome |-> outcome, tsDataset |-> tsDataset,
                                        has_more |-> more, queryId |-> qid])
         /\ IF outcome = "transport"
            THEN /\ fpc' = "raised"
                 /\ fresult' = [kind |-> "TransportFailure"]
                 /\ UNCHANGED <<data, query_id, has_more_data>>
            ELSE IF ~verify_success(IF outcome = "success" THEN "SUCCESS_STATUS"
                                                           ELSE "OTHER_ERROR")
            THEN /\ fpc' = "raised"
                 /\ fresult' = [kind |-> "QueryFailure"]
                 /\ UNCHANGED <<data, query_id, has_more_data>>
            ELSE IF FirstPageEmpty(tsDataset)
            THEN /\ fpc' = "raised"
                 /\ fresult' = [kind |-> "EmptyResult"]
                 /\ UNCHANGED <<data, query_id, has_more_data>>
            ELSE /\ data' = convert_to_df(tsDataset)
                 /\ query_id' = qid
                 /\ has_more_data' = more
                 /\ fpc' = "drain"
                 /\ UNCHANGED fresult
    /\ UNCHANGED cnVars

\* lines 107-120: one iteration of the while loop
FetchMore ==
    /\ fpc = "drain"
    /\ LoopAgain(has_more_data)
    /\ requests' = Append(requests, [kind |-> "fetchMoreData",
                                     queryId |-> FetchMoreQueryId(query_id)])
    /\ \E outcome \in {"transport", "error", "success"} :
       \E tsDataset \in Pages :
       \E more \in HasMoreChoices(FetchMoreCount + 2) :
         /\ outcome # "success" => (tsDataset = <<>> /\ more = FALSE)
         /\ arrived' = Append(arrived, [outcome |-> outcome, tsDataset |-> tsDataset,
                                        has_more |-> more, queryId |-> 0])
         /\ IF outcome = "transport"
               \/ ~verify_success(IF outcome = "success" THEN "SUCCESS_STATUS"
                                                         ELSE "OTHER_ERROR")
            THEN /\ fpc' = AfterFetchFailure(fpc)
                 /\ fresult' = IF AfterFetchFailure(fpc) = "raised"
                               THEN [kind |-> "FetchFailure", queryId |-> query_id]
                               ELSE fresult
                 /\ UNCHANGED <<data, has_more_data>>
            ELSE /\ data' = AppendPage(data, convert_to_df(tsDataset))
                 /\ has_more_data' = more
                 /\ UNCHANGED <<fpc, fresult>>
    /\ UNCHANGED query_id
    /\ UNCHANGED cnVars

\* line 121: return data
FetchReturn ==
    /\ fpc = "drain"
    /\ ~LoopAgain(has_more_data)
    /\ fpc' = "returned"
    /\ fresult' = [kind |-> "value", val |-> data]
    /\ UNCHANGED <<data, query_id, has_more_data, arrived, requests>>
    /\ UNCHANGED cnVars

FetchInit == CnOff /\ FInit

FetchNext == OpenQuery \/ FetchMore \/ FetchReturn

FetchSpec == FetchInit /\ [][FetchNext]_vars

\* every request of fetch_timeseries returns
FetchFairSpec == FetchSpec /\ WF_vars(FetchNext)

----------------------------------------------------------------------------
Init == CnInit /\ FInitIdle

Next ==
    \/ ConnectLeader
    \/ SkipLeader
    \/ RoundRobinStep
    \/ RoundRobinExhausted
    \/ StartCall
    \/ Rpc
    \/ WaitAndReconnect
    \/ SyncLatestConfigNodeList

Spec == Init /\ [][Next]_vars

\* the steps of the client itself: every connect and every RPC returns
ClientStep ==
    \/ ConnectLeader
    \/ SkipLeader
    \/ RoundRobinStep
    \/ RoundRobinExhausted
    \/ Rpc
    \/ WaitAndReconnect
    \/ SyncLatestConfigNodeList

FairSpec == Spec /\ WF_vars(ClientStep)

----------------------------------------------------------------------------
(* Properties of the ConfigNodeClient, checked under Spec *)

CallEnded == pc = "idle" /\ lastOutcome # "none"
RecoveredLocally == lastOutcome \in {"redirect", "transport"}

\* C1: a call issues its RPC at most RETRY_NUM times, and a call whose RETRY_NUM
\* attempts all ended in a redirect or a transport failure fails with
\* ClusterUnreachable and returns no value.
C1_RetryBudget ==
    /\ rpcCount <= RETRY_NUM
    /\ (CallEnded /\ rpcCount = RETRY_NUM /\ RecoveredLocally)
          => result.kind = "ClusterUnreachable"

C1_Witness ==
    /\ CallEnded
    /\ op = "get_ainode_configuration"
    /\ rpcCount = RETRY_NUM
    /\ lastOutcome = "redirect"
    /\ result = [kind |-> "ClusterUnreachable", at |-> "loop_end"]

\* C2 as stated: a call fails with ClusterUnreachable only after exactly RETRY_NUM
\* failed attempts (finding no endpoint while re-resolving does not end the call).
C2_Original ==
    (CallEnded /\ result.kind = "ClusterUnreachable") => rpcCount = RETRY_NUM

\* C2 as amended: a call whose attempts all end in a redirect or a transport failure
\* never returns a value and fails with ClusterUnreachable after at most RETRY_NUM
\* attempts: after exactly RETRY_NUM when the loop runs out, and earlier only when a
\* re-resolution found no endpoint in both of its passes.
C2_Amended ==
    /\ (CallEnded /\ RecoveredLocally) => result.kind = "ClusterUnreachable"
    /\ (CallEnded /\ result.kind = "ClusterUnreachable") =>
          /\ RecoveredLocally
          /\ 1 <= rpcCount /\ rpcCount <= RETRY_NUM
          /\ result.at = "loop_end" => rpcCount = RETRY_NUM
          /\ result.at = "try_to_connect" => pass = 2
          /\ rpcCount < RETRY_NUM => result.at = "try_to_connect"

C2_Witness ==
    /\ CallEnded
    /\ result = [kind |-> "ClusterUnreachable", at |-> "try_to_connect"]
    /\ lastOutcome = "transport"
    /\ rpcCount = 1
    /\ pass = 2

\* C3 as stated: when the attempt after a redirect naming E is issued, the presumed
\* leader is E.
C3_Original ==
    (pc = "rpc" /\ lastOutcome = "redirect" /\ lastRedirect # None)
        => config_leader = lastRedirect

\* C3 as amended: right after a redirect naming E the presumed leader is E; the
\* re-resolution that follows connects to E first; and when that connect succeeds the
\* next attempt is issued to E with the presumed leader still E.
C3_Amended ==
    (lastOutcome = "redirect" /\ lastRedirect # None) =>
        /\ pc = "wait" => config_leader = lastRedirect
        /\ (pc \in {"try_leader", "round_robin", "rpc", "idle"} /\ pass = 1 /\ tried # <<>>)
              => tried[1] = lastRedirect
        /\ (pc = "rpc" /\ pass = 1 /\ Len(tried) = 1)
              => (config_leader = lastRedirect /\ client = lastRedirect)

C3_Witness ==
    /\ pc = "rpc"
    /\ rpcCount = 3
    /\ lastOutcome = "redirect"
    /\ touched = {"leader"}
    /\ lastRedirect = 2
    /\ config_leader = 2
    /\ client = 2
    /\ tried = <<2>>

\* C4 as stated: a redirect is always followed by another attempt of the same call
\* while the retry budget is not used up.
C4_Original ==
    (CallEnded /\ lastOutcome = "redirect") => rpcCount = RETRY_NUM

\* C4 as amended: a redirect is never returned to the caller; it sets the presumed
\* leader to the named endpoint, or to None when none is named; it is followed by a
\* re-resolution, and by another attempt counted in the same budget, unless the
\* budget is used up or the re-resolution finds no endpoint, and then the call fails
\* with ClusterUnreachable.
C4_Amended ==
    /\ result.kind = "value" => lastOutcome = "success"
    /\ result.kind = "OperationFailure" => lastOutcome = "error"
    /\ lastOutcome = "redirect" =>
          /\ pc \in {"wait", "try_leader", "round_robin", "sync", "rpc", "idle"}
          /\ pc = "wait" => (config_leader = lastRedirect /\ result = NoResult)
          /\ pc = "rpc" => (rpcCount = i /\ i < RETRY_NUM /\ result = NoResult)
          /\ pc = "idle" =>
                /\ result.kind = "ClusterUnreachable"
                /\ rpcCount = RETRY_NUM \/ (result.at = "try_to_connect" /\ pass = 2)

C4_Witness ==
    /\ pc = "rpc"
    /\ rpcCount = 1
    /\ lastOutcome = "redirect"
    /\ lastRedirect = None
    /\ config_leader = None
    /\ config_nodes # <<>>

\* the members a round-robin pass that has made k connects and stands at cursor c
\* has tried, in order
RoundRobinOrder(members, c, k) ==
    [j \in 1..k |-> members[((c + Len(members) - (k - j)) % Len(members)) + 1]]

C6_Original ==
    (CallEnded /\ result.kind = "value") => config_nodes = lastList

\* C6 as amended: a success response is returned with the payload of the operation;
\* node_register and node_restart replace the known members by the list of the
\* response, node_remove and get_ainode_configuration leave them unchanged.
C6_Amended ==
    (CallEnded /\ lastOutcome = "success") =>
        /\ result.kind = "value"
        /\ op \in {"node_register", "get_ainode_configuration"} => result.val = lastPayload
        /\ op \in {"node_restart", "node_remove"} => result.val = "SUCCESS_STATUS"
        /\ op \in {"node_register", "node_restart"} => config_nodes = lastList
        /\ op \in {"node_remove", "get_ainode_configuration"} => "members" \notin touched

C6_Witness ==
    /\ CallEnded
    /\ op = "node_register"
    /\ result = [kind |-> "value", val |-> 7]
    /\ rpcCount = 3
    /\ "members" \in touched
    /\ config_nodes = <<2, 1>>
    /\ lastList = <<2, 1>>

\* C7: a response with a status that is neither success nor redirect ends the call
\* on the attempt that received it, as a failure carrying the status, with the
\* presumed leader, the known members and the cursor as they were.
C7_ErrorSurfaced ==
    lastOutcome = "error" =>
        /\ pc = "idle"
        /\ result = [kind |-> "OperationFailure", status |-> "OTHER_ERROR"]
        /\ touched = {}

C7_Witness ==
    /\ lastOutcome = "error"
    /\ rpcCount = 2
    /\ pc = "idle"
    /\ result.kind = "OperationFailure"
    /\ config_leader = 2
    /\ config_nodes = <<1>>

----------------------------------------------------------------------------
(* Properties of fetch_timeseries, checked under FetchSpec *)

RECURSIVE AllRows(_)
AllRows(pages) ==
    IF pages = <<>> THEN <<>>
    ELSE Flatten(Head(pages).tsDataset) \o AllRows(Tail(pages))

\* C8: the returned dataset is the rows of all pages in arrival order; every
\* fetch-more request carries the query id of the first response and follows a page
\* that reported has_more; there is one per such page and none after has_more = FALSE.
C8_Pagination ==
    /\ \A k \in 2..Len(requests) :
          /\ requests[k] = [kind |-> "fetchMoreData", queryId |-> arrived[1].queryId]
          /\ arrived[k - 1].outcome = "success"
          /\ arrived[k - 1].has_more
    /\ fpc = "returned" =>
          /\ fresult = [kind |-> "value", val |-> AllRows(arrived)]
          /\ \A k \in 1..Len(arrived) : arrived[k].outcome = "success"
          /\ Len(requests) = Len(arrived)
          /\ FetchMoreCount = Cardinality({k \in 1..Len(arrived) : arrived[k].has_more})
          /\ ~arrived[Len(arrived)].has_more

C8_Witness ==
    /\ fpc = "returned"
    /\ Len(arrived) = 3
    /\ arrived[1].tsDataset = << <<2>>, <<1>> >>
    /\ arrived[2].tsDataset = << <<1>> >>
    /\ arrived[3].tsDataset = <<>>
    /\ fresult.val = <<2, 1, 1>>
    /\ FetchMoreCount = 2

\* C9: a successful first page with zero rows fails the call with EmptyResult
\* whatever has_more says, with no fetch-more request; a successful later page,
\* zero rows or not, does not fail the call.
C9_EmptyResult ==
    /\ (Len(arrived) >= 1 /\ arrived[1].outcome = "success"
          /\ Len(Flatten(arrived[1].tsDataset)) = 0)
          => (fpc = "raised" /\ fresult.kind = "EmptyResult" /\ Len(requests) = 1)
    /\ (Len(arrived) >= 2 /\ arrived[Len(arrived)].outcome = "success")
          => (fpc \in {"drain", "returned"} /\ fresult.kind # "EmptyResult")
    /\ fresult.kind = "EmptyResult" => Len(arrived) = 1

C9_Witness ==
    /\ fpc = "raised"
    /\ fresult.kind = "EmptyResult"
    /\ arrived = << [outcome |-> "success", tsDataset |-> << <<>> >>,
                     has_more |-> TRUE, queryId |-> 2] >>
    /\ Len(requests) = 1

\* C10: the first request that fails, by status or by transport error, is the last
\* request of the call: each request is sent once, none follows the failure, and the
\* call ends in a failure that returns no rows.
C10_NoRetry ==
    /\ Len(requests) = Len(arrived)
    /\ \A k \in 1..Len(arrived) :
          arrived[k].outcome # "success" =>
              /\ k = Len(arrived)
              /\ fpc = "raised"
              /\ fresult.kind \in {"TransportFailure", "QueryFailure", "FetchFailure"}
    /\ fpc = "raised" => fresult.kind \notin {"value", "none"}
    /\ fresult.kind = "value" => \A k \in 1..Len(arrived) : arrived[k].outcome = "success"

C10_Witness ==
    /\ fpc = "raised"
    /\ Len(arrived) = 3
    /\ arrived[3].outcome = "transport"
    /\ Len(data) = 3
    /\ fresult.kind = "FetchFailure"

----------------------------------------------------------------------------
(* Connections, construction and resolution of the ConfigNodeClient, under Spec *)

\* C11 as stated: in every reachable state the client holds at most one open
\* connection: a reconnect closes the connection opened before it.
C11_Original == open_transports <= 1

\* the endpoints the current __try_to_connect has called __connect with
TriedSet == {tried[k] : k \in 1..Len(tried)}

\* C12 as stated: the constructed client has the first configured endpoint as
\* presumed leader and the configured endpoints as known members, so construction
\* fails only after every configured endpoint refused the connection.
C12_Original ==
    op = "init" =>
        /\ pc = "try_leader" => config_leader = Head(TargetConfigNodeList)
        /\ config_nodes = TargetConfigNodeList
        /\ pc = "dead" =>
              \A k \in 1..Len(TargetConfigNodeList) : TargetConfigNodeList[k] \in TriedSet

\* the members the current __try_to_connect has tried in its round-robin loop, in order
RoundRobinTried == IF passInfo.leaderFirst THEN Tail(tried) ELSE tried

\* C13: a round-robin pass over N > 0 known members that starts from stored cursor c
\* connects to the members at indices (c+1)%N, (c+2)%N, ... in that order, to at most
\* N of them, makes no connect after one is accepted, and leaves the cursor at the
\* index of the member tried last, which is the accepted one when the pass succeeds.
C13_RoundRobinOrder ==
    LET N == Len(config_nodes)
        rr == RoundRobinTried
    IN  /\ Len(rr) <= N
        /\ \A j \in 1..Len(rr) : rr[j] = config_nodes[((passInfo.cursor0 + j) % N) + 1]
        /\ rr # <<>> => cursor = (passInfo.cursor0 + Len(rr)) % N
        /\ rr = <<>> => cursor = passInfo.cursor0
        /\ (pc = "rpc" /\ rr # <<>>) =>
              /\ client = rr[Len(rr)]
              /\ client = config_nodes[cursor + 1]

C13_Witness ==
    /\ pc = "rpc"
    /\ config_leader = None
    /\ ~passInfo.leaderFirst
    /\ config_nodes = <<2, 1>>
    /\ passInfo.cursor0 = 0
    /\ tried = <<1, 2>>
    /\ cursor = 0
    /\ client = 2

\* C14 as stated: whenever the known members are non-empty the cursor is a valid index
\* into them, also after a refresh that installs a shorter list.
C14_Original ==
    config_nodes # <<>> => (0 <= cursor /\ cursor < Len(config_nodes))

\* C14 as amended: the cursor is never negative and never exceeds the largest index of
\* any list the client has held; it is a valid index into the known members whenever
\* the round-robin loop has moved it since the members were last replaced, so every
\* member lookup uses a valid index; a refresh itself leaves the cursor as it was.
C14_Amended ==
    /\ 0 <= cursor /\ cursor < MaxMembers
    /\ result.kind # "IndexError"
    /\ RoundRobinTried # <<>> => cursor < Len(config_nodes)
    /\ (CallEnded /\ lastOutcome = "success") => "cursor" \notin touched

C14_Witness ==
    /\ pc = "rpc"
    /\ Len(config_nodes) = 1
    /\ passInfo.cursor0 = 1
    /\ RoundRobinTried = config_nodes
    /\ cursor = 0

\* the current __try_to_connect has raised: in __init__, in the first call of
\* __wait_and_reconnect (caught there), or in its second call
ResolutionFailed ==
    \/ pc \in {"dead", "sync"}
    \/ pc = "idle" /\ result = [kind |-> "ClusterUnreachable", at |-> "try_to_connect"]

\* C15: resolution connects to the presumed leader first when it is set, and to no
\* other endpoint when that connect succeeds; the round-robin over the known members
\* runs only with the presumed leader unknown, after a failed connect to it or with
\* none set; resolution fails only with the presumed leader unknown and every known
\* member tried and refused, which with no known members is at once.
C15_Resolving ==
    /\ pc = "try_leader" => (tried = <<>> /\ ~passInfo.leaderFirst)
    /\ passInfo.leaderFirst => tried # <<>>
    /\ pc = "round_robin" =>
          /\ config_leader = None
          /\ try_host_num = Len(RoundRobinTried)
          /\ try_host_num <= Len(config_nodes)
    /\ (pc = "rpc" /\ passInfo.leaderFirst /\ Len(tried) = 1) =>
          (client = tried[1] /\ config_leader = tried[1])
    /\ (pc = "rpc" /\ RoundRobinTried # <<>>) => config_leader = None
    /\ ResolutionFailed =>
          /\ config_leader = None
          /\ Len(RoundRobinTried) = Len(config_nodes)
          /\ \A k \in 1..Len(config_nodes) : config_nodes[k] \in TriedSet

C15_Witness ==
    /\ pc = "sync"
    /\ passInfo.leaderFirst
    /\ lastOutcome = "redirect"
    /\ tried[1] = lastRedirect
    /\ Len(tried) = 3
    /\ Len(config_nodes) = 2
    /\ config_leader = None

\* resolution with no known members: the only connect is the one to the presumed leader
C15_WitnessNoMembers ==
    /\ pc = "dead"
    /\ config_nodes = <<>>
    /\ tried = <<Head(TargetConfigNodeList)>>

\* C16: between two attempts of a call the client re-resolves; the refresh hook runs
\* exactly once when the first re-resolution raised and is followed by exactly one more
\* resolution, whose failure ends the call; the hook does not run when the first
\* re-resolution succeeded; the hook leaves the known members unchanged.
C16_WaitAndReconnect ==
    /\ passInfo.syncCalls <= 1
    /\ ~passInfo.syncChanged
    /\ pc = "sync" => (pass = 1 /\ passInfo.syncCalls = 0)
    /\ (pc \in {"try_leader", "round_robin"} /\ pass = 1) => passInfo.syncCalls = 0
    /\ (pc \in {"try_leader", "round_robin"} /\ pass = 2) => passInfo.syncCalls = 1
    /\ (pc = "rpc" /\ i > 0) =>
          /\ tried # <<>>
          /\ pass = 1 => passInfo.syncCalls = 0
          /\ pass = 2 => passInfo.syncCalls = 1
    /\ (ResolutionFailed /\ pass = 2) => (pc = "idle" /\ passInfo.syncCalls = 1)

C16_Witness ==
    /\ pc = "rpc"
    /\ i = 1
    /\ pass = 2
    /\ passInfo.syncCalls = 1
    /\ config_nodes = <<1, 2>>
    /\ tried = <<2>>

\* C19 as stated: a round-robin pass over N > 0 members in which none accepts tries
\* each member once and ends with the cursor at its value before the pass.
C19_Original ==
    (ResolutionFailed /\ config_nodes # <<>>) =>
        /\ Len(RoundRobinTried) = Len(config_nodes)
        /\ cursor = passInfo.cursor0

\* C19 as amended: such a pass tries each member exactly once and ends with the cursor
\* at its value before the pass reduced modulo N, which is that value itself when it
\* was a valid index.
C19_Amended ==
    (ResolutionFailed /\ config_nodes # <<>>) =>
        /\ Len(RoundRobinTried) = Len(config_nodes)
        /\ \A k \in 1..Len(config_nodes) :
              Cardinality({j \in 1..Len(RoundRobinTried) :
                              RoundRobinTried[j] = config_nodes[k]}) = 1
        /\ cursor = passInfo.cursor0 % Len(config_nodes)
        /\ passInfo.cursor0 < Len(config_nodes) => cursor = passInfo.cursor0

C19_Witness ==
    /\ pc = "sync"
    /\ config_nodes = <<2, 1>>
    /\ passInfo.cursor0 = 1
    /\ RoundRobinTried = <<2, 1>>
    /\ cursor = 1

\* the pass that starts from a cursor left behind by a longer member list
C19_WitnessStaleCursor ==
    /\ pc = "sync"
    /\ Len(config_nodes) = 1
    /\ passInfo.cursor0 = 1
    /\ RoundRobinTried = config_nodes
    /\ cursor = 0

----------------------------------------------------------------------------
(* Termination of a ConfigNodeClient call, under FairSpec *)

InCall == pc \in {"rpc", "wait", "try_leader", "round_robin", "sync"}

\* what one call and one resolution pass may use
C18_Bounds ==
    /\ rpcCount <= RETRY_NUM
    /\ i <= RETRY_NUM
    /\ pass \in 0..2
    /\ passInfo.syncCalls <= 1
    /\ Len(tried) <= 1 + Len(config_nodes)
    /\ try_host_num <= Len(config_nodes)

\* an upper bound on the client steps left before the constructor or the call in
\* progress ends: the iterations of the retry loop still to run, each of at most one
\* RPC, one wait, two resolution passes and one refresh, plus what is left of the
\* current iteration
StepsLeft ==
    LET N == Len(config_nodes)
        perIteration == 2 * N + 8
        first == pass = 1
        here == CASE pc = "rpc" -> 2 * N + 7
                  [] pc = "wait" -> 2 * N + 6
                  [] pc = "try_leader" /\ first -> 2 * N + 5
                  [] pc = "round_robin" /\ first -> N + 4 + (N - try_host_num)
                  [] pc = "sync" -> N + 3
                  [] pc = "try_leader" /\ ~first -> N + 2
                  [] pc = "round_robin" /\ ~first -> 1 + (N - try_host_num)
                  [] OTHER -> 0
    IN  IF InCall THEN (RETRY_NUM - i) * perIteration + here ELSE 0

\* C18: a call performs at most RETRY_NUM RPCs and, per re-resolution, at most two
\* passes of at most 1 + length(known_members) connects each; while the constructor
\* or a call is in progress a client step is possible, and no client step leaves the
\* number of steps left, which is never negative, as it was or higher: when every
\* connect and every RPC returns, the constructor and every call end.
C18_Termination ==
    /\ C18_Bounds
    /\ StepsLeft >= 0
    /\ InCall => ENABLED ClientStep
    /\ ~ENABLED (ClientStep /\ StepsLeft' >= StepsLeft)

C18_Witness ==
    /\ pc = "idle"
    /\ result = [kind |-> "ClusterUnreachable", at |-> "loop_end"]
    /\ rpcCount = RETRY_NUM
    /\ pass = 2
    /\ passInfo.syncCalls = 1
    /\ Len(config_nodes) = 2
    /\ Len(tried) = 2

----------------------------------------------------------------------------
(* Termination of fetch_timeseries, under FetchFairSpec *)

FetchEnded == fpc \in {"returned", "raised"}

\* whether the call goes on depends on the last response only, not on how many pages
\* were requested
C20_LoopGuard ==
    /\ fpc = "drain" =>
          /\ \A k \in 1..Len(arrived) : arrived[k].outcome = "success"
          /\ has_more_data = arrived[Len(arrived)].has_more
          /\ has_more_data => (ENABLED FetchMore /\ ~ENABLED FetchReturn)
          /\ ~has_more_data => (ENABLED FetchReturn /\ ~ENABLED FetchMore)
    /\ fpc = "returned" =>
          (arrived[Len(arrived)].outcome = "success" /\ ~arrived[Len(arrived)].has_more)
    /\ fpc = "raised" =>
          \/ arrived[Len(arrived)].outcome # "success"
          \/ Len(arrived) = 1 /\ FirstPageEmpty(arrived[1].tsDataset)
    /\ FetchEnded => ~ENABLED FetchNext

====
